---- MODULE Spec2Model ----
(***************************************************************************)
(* A model of the SEO audit tool (src/app.py): the SEOAuditor methods      *)
(* analyze_article, suggest_improvements and save_analysis, and the        *)
(* Streamlit script main / display_analysis that drives them.              *)
(*                                                                         *)
(* Python values are modelled as follows.                                  *)
(*   str    a sequence of one-character strings                            *)
(*   list   a sequence                                                     *)
(*   dict   a record when the keys are fixed by the code; a sequence of    *)
(*          <<key, value>> pairs in insertion order when they are data     *)
(*   float  a reduced fraction [num, den] with den > 0; the int literal 0  *)
(*          of line 36 is [num |-> 0, den |-> 0]                           *)
(***************************************************************************)
EXTENDS Integers, Sequences, FiniteSets, TLC

VARIABLES
    pc,            \* position of the caller / of the script run
    url,           \* the url argument of the current analyze_article call
    response,      \* what requests.get produced for it
    analysis,      \* the value analyze_article returned / the argument of the other methods
    raised,        \* the class of the exception that left the last call, "" if none
    suggestions,   \* the value suggest_improvements returned
    clock,         \* datetime.now(), in ticks
    files,         \* the results directory: file name -> file content
    saves,         \* the save_analysis calls made so far, in order
    session,       \* Streamlit widget state: radio, text_input, text_area
    trigger,       \* the button whose click started the current script run
    widgets,       \* the button labels registered so far in the current script run
    queue,         \* urls_list of the bulk loop (or the single url)
    idx,           \* position of the loop in queue
    log,           \* what the current script run did, in order
    screen         \* the buttons the current script run has drawn

vars == <<pc, url, response, analysis, raised, suggestions, clock, files, saves,
          session, trigger, widgets, queue, idx, log, screen>>

uiVars == <<session, trigger, widgets, queue, idx, log, screen>>

(***************************************************************************)
(* Python numbers                                                          *)
(***************************************************************************)
RECURSIVE Gcd(_, _)
Gcd(a, b) == IF b = 0 THEN a ELSE Gcd(b, a % b)

\* the int literal 0 of `... if sentences else 0`
IntZero == [num |-> 0, den |-> 0]

\* a / b for ints a >= 0, b > 0: the float, as a reduced fraction
TrueDiv(a, b) == [num |-> a \div Gcd(a, b), den |-> b \div Gcd(a, b)]

\* x > n for a number x of the above form and an int n
NumGreater(x, n) == x.den > 0 /\ x.num > n * x.den

\* x == 0 in Python (0 == 0.0)
NumIsZero(x) == x.num = 0

(***************************************************************************)
(* suggest_improvements (lines 83-131)                                     *)
(***************************************************************************)
MinWords == 300
MaxAvgSentence == 20
MinInternalLinks == 2

ContentLengthSuggestion ==
    [category |-> "Content Length", issue |-> "Content is too short",
     suggestion |-> "Aim for at least 300 words for better SEO performance.",
     priority |-> "High"]

ReadabilitySuggestion ==
    [category |-> "Readability", issue |-> "Sentences are too long",
     suggestion |-> "Try to keep average sentence length under 20 words for better readability.",
     priority |-> "Medium"]

StructureSuggestion ==
    [category |-> "Structure", issue |-> "No headings found",
     suggestion |-> "Add hierarchical headings (H1, H2, etc.) to improve content structure.",
     priority |-> "High"]

InternalLinkingSuggestion ==
    [category |-> "Internal Linking", issue |-> "Few internal links",
     suggestion |-> "Add more internal links to improve site structure and SEO.",
     priority |-> "Medium"]

ExternalLinkingSuggestion ==
    [category |-> "External Linking", issue |-> "No external links",
     suggestion |-> "Consider adding relevant external links to authoritative sources.",
     priority |-> "Low"]

\* if cond: suggestions.append(s)
AppendIf(cond, list, s) == IF cond THEN Append(list, s) ELSE list

\* the plausible slip: the link checks written as if / elif
suggest_improvements_elif(a) ==
    LET metrics == a.metrics
        s1 == AppendIf(metrics.word_count < MinWords, <<>>, ContentLengthSuggestion)
        s2 == AppendIf(NumGreater(metrics.avg_sentence_length, MaxAvgSentence), s1,
                       ReadabilitySuggestion)
        s3 == AppendIf(metrics.num_headings = 0, s2, StructureSuggestion)
    IN  IF metrics.num_internal_links < MinInternalLinks
        THEN Append(s3, InternalLinkingSuggestion)
        ELSE AppendIf(metrics.num_external_links = 0, s3, ExternalLinkingSuggestion)

suggest_improvements(a) ==
    LET metrics == a.metrics
        s1 == AppendIf(metrics.word_count < MinWords, <<>>, ContentLengthSuggestion)
        s2 == AppendIf(NumGreater(metrics.avg_sentence_length, MaxAvgSentence), s1,
                       ReadabilitySuggestion)
        s3 == AppendIf(metrics.num_headings = 0, s2, StructureSuggestion)
        s4 == AppendIf(metrics.num_internal_links < MinInternalLinks, s3,
                       InternalLinkingSuggestion)
        s5 == AppendIf(metrics.num_external_links = 0, s4, ExternalLinkingSuggestion)
    IN  s5

(***************************************************************************)
(* Python str: sequences of characters                                     *)
(***************************************************************************)
LowerLetters == <<"a","b","c","d","e","f","g","h","i","j","k","l","m",
                  "n","o","p","q","r","s","t","u","v","w","x","y","z">>
UpperLetters == <<"A","B","C","D","E","F","G","H","I","J","K","L","M",
                  "N","O","P","Q","R","S","T","U","V","W","X","Y","Z">>
DigitChars == <<"0","1","2","3","4","5","6","7","8","9">>

Range(f) == {f[i] : i \in DOMAIN f}

IsSpace(c) == c \in {" ", "\n", "\t"}
IsLetter(c) == c \in Range(LowerLetters) \cup Range(UpperLetters)
\* \w of the re module
IsWordChar(c) == IsLetter(c) \/ c \in Range(DigitChars) \/ c = "_"

\* str.lower(), one character
LowerChar(c) ==
    IF c \in Range(UpperLetters)
    THEN LowerLetters[CHOOSE i \in DOMAIN UpperLetters : UpperLetters[i] = c]
    ELSE c

\* str.lower()
lower(s) == [i \in 1..Len(s) |-> LowerChar(s[i])]

\* str.isalpha()
isalpha(s) == Len(s) > 0 /\ \A i \in 1..Len(s) : IsLetter(s[i])

\* the first position >= i of s that is not whitespace, Len(s)+1 if none
RECURSIVE SkipSpace(_, _)
SkipSpace(s, i) ==
    IF i > Len(s) \/ ~IsSpace(s[i]) THEN i ELSE SkipSpace(s, i + 1)

\* the first position >= i of s that is whitespace, Len(s)+1 if none
RECURSIVE SkipWord(_, _)
SkipWord(s, i) ==
    IF i > Len(s) \/ IsSpace(s[i]) THEN i ELSE SkipWord(s, i + 1)

\* the last position <= i of s that is not whitespace, 0 if none
RECURSIVE LastNonSpace(_, _)
LastNonSpace(s, i) ==
    IF i = 0 \/ ~IsSpace(s[i]) THEN i ELSE LastNonSpace(s, i - 1)

\* str.lstrip()
lstrip(s) == SubSeq(s, SkipSpace(s, 1), Len(s))

\* str.strip()
strip(s) == SubSeq(s, SkipSpace(s, 1), LastNonSpace(s, Len(s)))

\* str.split(): the maximal runs of non-whitespace, from position i on
RECURSIVE SplitFrom(_, _)
SplitFrom(s, i) ==
    LET b == SkipSpace(s, i)
        e == SkipWord(s, b)
    IN  IF b > Len(s) THEN <<>>
        ELSE <<SubSeq(s, b, e - 1)>> \o SplitFrom(s, e)

split(s) == SplitFrom(s, 1)

\* sep.join(parts)
RECURSIVE join(_, _)
join(sep, parts) ==
    IF parts = <<>> THEN <<>>
    ELSE IF Len(parts) = 1 THEN parts[1]
    ELSE parts[1] \o sep \o join(sep, Tail(parts))

\* str.split(sep) for a one-character sep: empty fields are kept
RECURSIVE SplitOn(_, _, _, _)
SplitOn(s, sep, i, start) ==
    IF i > Len(s) THEN <<SubSeq(s, start, Len(s))>>
    ELSE IF s[i] = sep
         THEN <<SubSeq(s, start, i - 1)>> \o SplitOn(s, sep, i + 1, i + 1)
         ELSE SplitOn(s, sep, i + 1, start)

split_lines(s) == SplitOn(s, "\n", 1, 1)

\* whether s has t at position i
HasAt(s, i, t) == i + Len(t) - 1 <= Len(s) /\ SubSeq(s, i, i + Len(t) - 1) = t

\* t in s
Contains(s, t) == \E i \in 1..(Len(s) - Len(t) + 1) : HasAt(s, i, t)

\* map and filter over a list
RECURSIVE MapSeq(_, _)
MapSeq(F(_), s) == IF s = <<>> THEN <<>> ELSE <<F(Head(s))>> \o MapSeq(F, Tail(s))

(***************************************************************************)
(* re.findall(r'https?://(?:www\.)?([^/]+)', url)   (line 46)              *)
(***************************************************************************)
Http == <<"h","t","t","p">>
SchemeSep == <<":","/","/">>
Www == <<"w","w","w",".">>

\* the end of the maximal run of characters other than "/" that starts at i
RECURSIVE HostEnd(_, _)
HostEnd(s, i) == IF i > Len(s) \/ s[i] = "/" THEN i - 1 ELSE HostEnd(s, i + 1)

\* the position after "http", an optional "s" and "://" when they stand at i, else 0
AfterScheme(s, i) ==
    IF ~HasAt(s, i, Http) THEN 0
    ELSE LET j == IF HasAt(s, i + 4, <<"s">>) THEN i + 5 ELSE i + 4
         IN  IF HasAt(s, j, SchemeSep) THEN j + 3 ELSE 0

\* where group 1 starts for a match at i, 0 if the pattern does not match at i:
\* "www." is skipped when a host character follows it, else it is part of the host
GroupStart(s, i) ==
    LET k == AfterScheme(s, i)
    IN  IF k = 0 THEN 0
        ELSE IF HasAt(s, k, Www) /\ k + 4 <= Len(s) /\ s[k + 4] # "/" THEN k + 4
        ELSE IF k <= Len(s) /\ s[k] # "/" THEN k
        ELSE 0

\* the positions at which the pattern matches
MatchStarts(s) == {i \in 1..Len(s) : GroupStart(s, i) # 0}

\* findall(...) is empty: [0] raises IndexError
NoDomain(s) == MatchStarts(s) = {}

\* findall(...)[0]: group 1 of the leftmost match
FirstDomain(s) ==
    LET i == CHOOSE m \in MatchStarts(s) : \A n \in MatchStarts(s) : m <= n
        g == GroupStart(s, i)
    IN  SubSeq(s, g, HostEnd(s, g))

(***************************************************************************)
(* nltk.sent_tokenize (line 35).  Punkt, reduced to its boundary rule: a   *)
(* sentence ends at a '.', '!' or '?' that is followed by whitespace and   *)
(* further text; text without any non-whitespace has no sentence.          *)
(***************************************************************************)
IsSentEnd(c) == c \in {".", "!", "?"}

RECURSIVE SentFrom(_, _, _)
SentFrom(s, start, i) ==
    LET last == LastNonSpace(s, Len(s))
    IN  IF start > last THEN <<>>
        ELSE IF i >= last THEN <<SubSeq(s, start, last)>>
        ELSE IF IsSentEnd(s[i]) /\ IsSpace(s[i + 1])
             THEN <<SubSeq(s, start, i)>>
                  \o SentFrom(s, SkipSpace(s, i + 1), SkipSpace(s, i + 1))
             ELSE SentFrom(s, start, i + 1)

sent_tokenize(text) == SentFrom(text, SkipSpace(text, 1), SkipSpace(text, 1))

(***************************************************************************)
(* self.nlp(text) (line 56).  The spaCy tokenizer, reduced to: a token is  *)
(* a maximal run of letters and digits, or one other non-space character.  *)
(***************************************************************************)
IsAlnum(c) == IsLetter(c) \/ c \in Range(DigitChars)

RECURSIVE AlnumEnd(_, _)
AlnumEnd(s, i) == IF i > Len(s) \/ ~IsAlnum(s[i]) THEN i - 1 ELSE AlnumEnd(s, i + 1)

RECURSIVE TokensFrom(_, _)
TokensFrom(s, i) ==
    IF i > Len(s) THEN <<>>
    ELSE IF IsSpace(s[i]) THEN TokensFrom(s, i + 1)
    ELSE IF IsAlnum(s[i])
         THEN <<SubSeq(s, i, AlnumEnd(s, i))>> \o TokensFrom(s, AlnumEnd(s, i) + 1)
         ELSE <<SubSeq(s, i, i)>> \o TokensFrom(s, i + 1)

nlp(text) == TokensFrom(text, 1)

\* spaCy's English stop words that are longer than two letters, as far as
\* the modelled pages use them
StopWords == { <<"t","h","e">>, <<"a","n","d">>, <<"f","o","r">> }

\* token.is_stop: the lower-cased text is a stop word
is_stop(token) == lower(token) \in StopWords

\* token.is_alpha
is_alpha(token) == isalpha(token)

(***************************************************************************)
(* keyword counting and ranking (lines 57-63)                              *)
(***************************************************************************)
MinKeywordLen == 2
TopN == 10

\* keywords.get(w, 0)
DictGet(d, w, default) ==
    IF \E i \in 1..Len(d) : d[i][1] = w
    THEN d[CHOOSE i \in 1..Len(d) : d[i][1] = w][2]
    ELSE default

\* keywords[w] = v: in place when w is a key, else appended
DictSet(d, w, v) ==
    IF \E i \in 1..Len(d) : d[i][1] = w
    THEN [i \in 1..Len(d) |-> IF d[i][1] = w THEN <<w, v>> ELSE d[i]]
    ELSE Append(d, <<w, v>>)

KeepToken(token) == ~is_stop(token) /\ is_alpha(token) /\ Len(token) > MinKeywordLen

RECURSIVE CountKeywords(_, _)
CountKeywords(doc, keywords) ==
    IF doc = <<>> THEN keywords
    ELSE LET token == Head(doc)
         IN  IF KeepToken(token)
             THEN CountKeywords(Tail(doc),
                      DictSet(keywords, lower(token), DictGet(keywords, lower(token), 0) + 1))
             ELSE CountKeywords(Tail(doc), keywords)

\* x put into a list sorted by descending count, after the items that are
\* not smaller: sorted(..., key=count, reverse=True) keeps equal items in order
RECURSIVE InsertDesc(_, _)
InsertDesc(sorted, x) ==
    IF sorted = <<>> THEN <<x>>
    ELSE IF Head(sorted)[2] >= x[2] THEN <<Head(sorted)>> \o InsertDesc(Tail(sorted), x)
    ELSE <<x>> \o sorted

RECURSIVE SortedDesc(_, _)
SortedDesc(items, acc) ==
    IF items = <<>> THEN acc ELSE SortedDesc(Tail(items), InsertDesc(acc, Head(items)))

\* the plausible slip: reverse=True left out, so the sort is ascending
RECURSIVE InsertAsc(_, _)
InsertAsc(sorted, x) ==
    IF sorted = <<>> THEN <<x>>
    ELSE IF Head(sorted)[2] <= x[2] THEN <<Head(sorted)>> \o InsertAsc(Tail(sorted), x)
    ELSE <<x>> \o sorted

RECURSIVE SortedAsc(_, _)
SortedAsc(items, acc) ==
    IF items = <<>> THEN acc ELSE SortedAsc(Tail(items), InsertAsc(acc, Head(items)))

top_keywords_ascending(keywords) ==
    LET all == SortedAsc(keywords, <<>>)
    IN  SubSeq(all, 1, IF Len(all) < TopN THEN Len(all) ELSE TopN)

\* dict(sorted(keywords.items(), key=lambda x: x[1], reverse=True)[:10])
\* (SubSeq past the end of a shorter list yields the whole list, as the slice does)
top_keywords(keywords) ==
    LET all == SortedDesc(keywords, <<>>)
    IN  SubSeq(all, 1, IF Len(all) < TopN THEN Len(all) ELSE TopN)

(***************************************************************************)
(* analyze_article (lines 25-81).  The parsed page (soup) is the sequence  *)
(* of its p, h1..h6 and a elements in document order, each with its text   *)
(* and, for an a element, whether it carries an href and which.            *)
(***************************************************************************)
HeadingTags == <<"h1", "h2", "h3", "h4", "h5", "h6">>

RECURSIVE find_all(_, _)
find_all(soup, tag) ==
    IF soup = <<>> THEN <<>>
    ELSE IF Head(soup).tag = tag THEN <<Head(soup)>> \o find_all(Tail(soup), tag)
    ELSE find_all(Tail(soup), tag)

ElemText(e) == e.text
StrippedText(e) == strip(e.text)

\* ' '.join([p.text for p in soup.find_all('p')])   (line 31)
paragraph_text(soup) == join(<<" ">>, MapSeq(ElemText, find_all(soup, "p")))

\* word_count / len(sentences) if sentences else 0   (line 36)
avg_sentence_length(word_count, sentences) ==
    IF sentences # <<>> THEN TrueDiv(word_count, Len(sentences)) ELSE IntZero

\* the plausible slip: one find_all over all heading tags, in document order
RECURSIVE extract_headings_document_order(_, _)
extract_headings_document_order(soup, i) ==
    IF soup = <<>> THEN <<>>
    ELSE IF Head(soup).tag \in Range(HeadingTags)
         THEN <<strip(Head(soup).text)>> \o extract_headings_document_order(Tail(soup), i)
         ELSE extract_headings_document_order(Tail(soup), i)

\* for i in range(1, 7): headings.extend(...)   (lines 39-41), from level i on
RECURSIVE extract_headings(_, _)
extract_headings(soup, i) ==
    IF i > Len(HeadingTags) THEN <<>>
    ELSE MapSeq(StrippedText, find_all(soup, HeadingTags[i])) \o extract_headings(soup, i + 1)

\* soup.find_all('a', href=True)
RECURSIVE find_all_a_href(_)
find_all_a_href(soup) ==
    IF soup = <<>> THEN <<>>
    ELSE IF Head(soup).tag = "a" /\ Head(soup).has_href
         THEN <<Head(soup)>> \o find_all_a_href(Tail(soup))
         ELSE find_all_a_href(Tail(soup))

\* {'text': a.text.strip(), 'href': a.get('href')}   (line 49)
LinkOf(a) == [text |-> strip(a.text), href |-> a.href]

\* the plausible slip: a link counts as internal only when its href starts with the domain
is_internal_prefix(domain, link) == HasAt(link.href, 1, domain)

\* domain in link['href']   (line 50)
is_internal(domain, link) == Contains(link.href, domain)

\* the loop of lines 48-53 over the anchors
RECURSIVE classify_links(_, _, _, _)
classify_links(anchors, domain, internal_links, external_links) ==
    IF anchors = <<>> THEN [internal |-> internal_links, external |-> external_links]
    ELSE LET link == LinkOf(Head(anchors))
         IN  IF is_internal(domain, link)
             THEN classify_links(Tail(anchors), domain, Append(internal_links, link),
                                 external_links)
             ELSE classify_links(Tail(anchors), domain, internal_links,
                                 Append(external_links, link))

\* two decimal digits
TwoDigits(n) == <<DigitChars[((n \div 10) % 10) + 1], DigitChars[(n % 10) + 1]>>

TicksPerSecond == 2

\* datetime.now().isoformat(): the seconds, and the fraction unless it is zero
isoformat(now) ==
    LET sec == now \div TicksPerSecond
        frac == now % TicksPerSecond
    IN  <<"T">> \o TwoDigits(sec) \o (IF frac = 0 THEN <<>> ELSE <<".">> \o TwoDigits(frac))

Raise(type, msg) == [raised |-> TRUE, type |-> type, value |-> [error |-> msg]]
Return(v) == [raised |-> FALSE, type |-> "", value |-> v]

\* the body of the try statement (lines 27-79)
analyze_body(u, resp, now) ==
    IF ~resp.ok THEN Raise("RequestException", resp.error)
    ELSE
    LET soup == resp.body
        text == paragraph_text(soup)
        word_count == Len(split(text))
        sentences == sent_tokenize(text)
        avg == avg_sentence_length(word_count, sentences)
        headings == extract_headings(soup, 1)
    IN  IF NoDomain(u) THEN Raise("IndexError", "list index out of range")
        ELSE
        LET domain == FirstDomain(u)
            links == classify_links(find_all_a_href(soup), domain, <<>>, <<>>)
            keywords == CountKeywords(nlp(text), <<>>)
            sorted_keywords == top_keywords(keywords)
        IN  Return([url |-> u,
                    analyzed_at |-> isoformat(now),
                    metrics |-> [word_count |-> word_count,
                                 avg_sentence_length |-> avg,
                                 num_headings |-> Len(headings),
                                 num_internal_links |-> Len(links.internal),
                                 num_external_links |-> Len(links.external)],
                    headings |-> headings,
                    internal_links |-> links.internal,
                    external_links |-> links.external,
                    top_keywords |-> sorted_keywords])

\* 'error' in analysis is false: a record, not {error: ...}
IsRecord(a) == "error" \notin DOMAIN a

\* the exception classes the body can raise that derive from Exception
ExceptionTypes == {"RequestException", "IndexError"}

\* the plausible slip: except requests.RequestException
analyze_article_narrow_except(u, resp, now) ==
    LET r == analyze_body(u, resp, now)
    IN  IF r.raised /\ r.type = "RequestException" THEN Return(r.value) ELSE r

\* try: ... except Exception as e: return {'error': str(e)}
analyze_article(u, resp, now) ==
    LET r == analyze_body(u, resp, now)
    IN  IF r.raised /\ r.type \in ExceptionTypes THEN Return(r.value) ELSE r

(***************************************************************************)
(* json.dump(analysis, f, indent=2, ensure_ascii=False) (line 140) and     *)
(* json.load.  A JSON text is modelled by its parse tree: an object is the *)
(* list of its members in the order written, a number keeps whether it was *)
(* written as an integer or with a fraction.  The object of a dict with    *)
(* code-fixed keys has kind "object", that of the keyword dict "mapping".  *)
(* The texts of the modelled pages have no character that json.dump cannot *)
(* encode as UTF-8.                                                        *)
(***************************************************************************)
JString(chars) == [json |-> "string", val |-> chars]
JInt(n) == [json |-> "int", val |-> n]
JArray(items) == [json |-> "array", val |-> items]
JObject(members) == [json |-> "object", val |-> members]
JMapping(members) == [json |-> "mapping", val |-> members]

\* avg_sentence_length, the one value that is an int or a float: the int 0 is
\* written without a fraction (den = 0) and read back as an int, a float is
\* written by its repr, which reads back as the same float
JNumber(x) == [json |-> "number", val |-> <<x.num, x.den>>]

JLink(link) == JObject(<< <<"text", JString(link.text)>>, <<"href", JString(link.href)>> >>)
JKeyword(item) == <<item[1], JInt(item[2])>>

JMetrics(m) ==
    JObject(<< <<"word_count", JInt(m.word_count)>>,
               <<"avg_sentence_length", JNumber(m.avg_sentence_length)>>,
               <<"num_headings", JInt(m.num_headings)>>,
               <<"num_internal_links", JInt(m.num_internal_links)>>,
               <<"num_external_links", JInt(m.num_external_links)>> >>)

\* the members of the record, in the insertion order of the dict of lines 65-79
json_dump(a) ==
    JObject(<< <<"url", JString(a.url)>>,
               <<"analyzed_at", JString(a.analyzed_at)>>,
               <<"metrics", JMetrics(a.metrics)>>,
               <<"headings", JArray(MapSeq(JString, a.headings))>>,
               <<"internal_links", JArray(MapSeq(JLink, a.internal_links))>>,
               <<"external_links", JArray(MapSeq(JLink, a.external_links))>>,
               <<"top_keywords", JMapping(MapSeq(JKeyword, a.top_keywords))>> >>)

\* the value of the last member with key k (a repeated key keeps its last value)
MemberValue(members, k) ==
    members[CHOOSE i \in 1..Len(members) :
                /\ members[i][1] = k
                /\ \A j \in (i + 1)..Len(members) : members[j][1] # k][2]

\* json.load: an object becomes a dict, an array a list
RECURSIVE json_load(_)
json_load(doc) ==
    CASE doc.json = "string" -> doc.val
      [] doc.json = "int" -> doc.val
      [] doc.json = "number" -> [num |-> doc.val[1], den |-> doc.val[2]]
      [] doc.json = "array" -> [i \in 1..Len(doc.val) |-> json_load(doc.val[i])]
      [] doc.json = "mapping" ->
            [i \in 1..Len(doc.val) |-> <<doc.val[i][1], json_load(doc.val[i][2])>>]
      [] doc.json = "object" ->
            [k \in {doc.val[i][1] : i \in 1..Len(doc.val)} |->
                json_load(MemberValue(doc.val, k))]

(***************************************************************************)
(* save_analysis (lines 133-142)                                           *)
(***************************************************************************)
\* datetime.now().strftime('%Y%m%d_%H%M%S'): second precision
strftime(now) ==
    LET sec == now \div TicksPerSecond
    IN  TwoDigits(sec \div 60) \o <<"_">> \o TwoDigits(sec % 60)

\* re.sub(r'[^\w\-_.]', '_', s)
sanitize(s) ==
    [i \in 1..Len(s) |-> IF IsWordChar(s[i]) \/ s[i] \in {"-", "_", "."} THEN s[i] ELSE "_"]

ResultsDir == <<"r","e","s","u","l","t","s","/">>
Approved == <<"a","p","p","r","o","v","e","d">>
Pending == <<"p","e","n","d","i","n","g">>
DotJson == <<".","j","s","o","n">>

\* self.results_dir / f"{filename}_{status}_{timestamp}.json"
output_file(a, approved, now) ==
    ResultsDir \o sanitize(a.url) \o <<"_">> \o (IF approved THEN Approved ELSE Pending)
        \o <<"_">> \o strftime(now) \o DotJson

\* open(path, 'w') and the write: the file is created, or truncated and rewritten
WriteFile(fs, path, content) ==
    [n \in DOMAIN fs \cup {path} |-> IF n = path THEN content ELSE fs[n]]

\* the plausible slip: the approval flag stored in the payload
save_analysis_tagged(a, approved, now, fs) ==
    LET doc == json_dump(a)
        tagged == JObject(Append(doc.val,
                      <<"approved", JString(IF approved THEN Approved ELSE Pending)>>))
    IN  WriteFile(fs, output_file(a, approved, now), tagged)

\* the results directory after save_analysis(analysis, approved) at time now
save_analysis(a, approved, now, fs) ==
    WriteFile(fs, output_file(a, approved, now), json_dump(a))

(***************************************************************************)
(* requests.get(url) (line 27): the web is the environment.  A fetch may   *)
(* always fail; it can succeed only for a url that requests accepts: after *)
(* leading whitespace, a scheme http or https in any letter case, "://"    *)
(* and a host.                                                             *)
(***************************************************************************)
Fetchable(u) ==
    LET v == lower(lstrip(u))
        k == AfterScheme(v, 1)
    IN  k # 0 /\ k <= Len(v) /\ v[k] # "/" /\ ~IsSpace(v[k])

FetchError(u) ==
    [ok |-> FALSE, body |-> <<>>,
     error |-> IF Fetchable(u) THEN "connection refused" ELSE "no scheme supplied"]

FetchOk(page) == [ok |-> TRUE, body |-> page, error |-> ""]

Responses(u, pages) ==
    {FetchError(u)} \cup (IF Fetchable(u) THEN {FetchOk(pg) : pg \in pages} ELSE {})

(***************************************************************************)
(* The inputs                                                              *)
(***************************************************************************)
UrlPlain == <<"h","t","t","p",":","/","/","a",".","c","/","p">>
UrlWww == <<"h","t","t","p","s",":","/","/","w","w","w",".","b",".","d">>
UrlQuery == <<"h","t","t","p",":","/","/","a",".","c","?","p">>
UrlUpper == <<"H","T","T","P",":","/","/","a",".","c">>
UrlBare == <<"a",".","c">>

Urls == {UrlPlain, UrlWww, UrlQuery, UrlUpper, UrlBare}

Elem(tag, text, has_href, href) ==
    [tag |-> tag, text |-> text, has_href |-> has_href, href |-> href]

ElementPool == {
    Elem("p", <<"T","h","e"," ","s","e","o"," ","S","e","o","!"," ","G","o">>, FALSE, <<>>),
    Elem("h1", <<"A">>, FALSE, <<>>),
    Elem("h2", <<" ","B"," ","b","\n">>, FALSE, <<>>),
    Elem("a", <<" ","x"," ">>, TRUE, <<"/","y">>),
    Elem("a", <<"i","n">>, TRUE, <<"h","t","t","p",":","/","/","a",".","c","/","y">>),
    Elem("a", <<"n">>, FALSE, <<>>) }

\* pages with a blank paragraph, an empty heading, an empty href, and an href
\* that merely contains the text of a domain
EdgePages == {
    << Elem("p", <<" ","\n">>, FALSE, <<>>) >>,
    << Elem("h3", <<>>, FALSE, <<>>), Elem("a", <<"e">>, TRUE, <<>>) >>,
    << Elem("p", <<"F","o","r"," ","t","h","e">>, FALSE, <<>>), Elem("p", <<"S","e","o","\t","p","i","g","."," ","p","i","g","?">>, FALSE, <<>>),
       Elem("a", <<>>, TRUE, <<"/","q","?","u","=","b",".","d">>), Elem("h6", <<"\t","Z"," ">>, FALSE, <<>>), Elem("h1", <<"Y">>, FALSE, <<>>) >> }

MaxElems == 3

SeqsUpTo(S, n) == UNION {[1..k -> S] : k \in 0..n}

ShortPages == SeqsUpTo(ElementPool, MaxElems)

\* pages of one long paragraph, to have more distinct keywords than TopN
Vocabulary == <<<<"a","n","t">>,
               <<"b","e","e">>,
               <<"c","a","t">>,
               <<"d","o","g">>,
               <<"e","e","l">>,
               <<"f","o","x">>,
               <<"g","n","u">>,
               <<"h","e","n">>,
               <<"j","a","y">>,
               <<"k","o","i">>,
               <<"o","w","l">>,
               <<"p","i","g">>,
               <<"r","a","t">>>>

MaxDocWords == 16
MaxStride == 3

LongText(len, stride) ==
    join(<<" ">>, [i \in 1..len |-> Vocabulary[((i * stride) % Len(Vocabulary)) + 1]])

LongPages ==
    { <<Elem("p", LongText(len, stride), FALSE, <<>>)>> :
        len \in {MaxDocWords - 4, MaxDocWords}, stride \in 1..MaxStride }

Pages == ShortPages \cup EdgePages \cup LongPages

(***************************************************************************)
(* The state of a caller that has not started the Streamlit script         *)
(***************************************************************************)
NoSession == [input_method |-> "Single URL", url |-> <<>>, urls |-> <<>>]

\* a button on screen: its label and, for a save button, the record it was drawn for
Button(label, target) == [label |-> label, target |-> target]
NoTrigger == Button("", [error |-> ""])

UiAtRest ==
    /\ session = NoSession
    /\ trigger = NoTrigger
    /\ widgets = {}
    /\ queue = <<>>
    /\ idx = 0
    /\ log = <<>>
    /\ screen = <<>>

(***************************************************************************)
(* SpecAnalyze: one call of analyze_article on any url and any response    *)
(***************************************************************************)
InitAnalyze ==
    /\ pc = "ready"
    /\ url \in Urls
    /\ response \in Responses(url, Pages)
    /\ analysis = [error |-> ""]
    /\ raised = ""
    /\ suggestions = <<>>
    /\ clock \in {0, 1}
    /\ files = <<>>
    /\ saves = <<>>
    /\ UiAtRest

AnalyzeCall ==
    /\ pc = "ready"
    /\ LET r == analyze_article(url, response, clock)
       IN  /\ raised' = (IF r.raised THEN r.type ELSE "")
           /\ analysis' = (IF r.raised THEN analysis ELSE r.value)
    /\ pc' = "done"
    /\ UNCHANGED <<url, response, suggestions, clock, files, saves>>
    /\ UNCHANGED uiVars

\* file_path = auditor.save_analysis(analysis, approved): the directory and the
\* record of the call
DoSave(approved) ==
    /\ files' = save_analysis(analysis, approved, clock, files)
    /\ saves' = Append(saves, [analysis |-> analysis, approved |-> approved,
                                path |-> output_file(analysis, approved, clock),
                                overwrote |-> output_file(analysis, approved, clock)
                                                 \in DOMAIN files])

\* the caller saves the record it got
SaveCall ==
    /\ pc = "done"
    /\ raised = ""
    /\ IsRecord(analysis)
    /\ \E approved \in BOOLEAN : DoSave(approved)
    /\ pc' = "saved"
    /\ UNCHANGED <<url, response, analysis, raised, suggestions, clock>>
    /\ UNCHANGED uiVars

NextAnalyze == AnalyzeCall \/ SaveCall

SpecAnalyze == InitAnalyze /\ [][NextAnalyze]_vars

\* the call has returned a record
Analyzed == pc = "done" /\ raised = "" /\ IsRecord(analysis)

HrefAnchors(body) == {k \in 1..Len(body) : body[k].tag = "a" /\ body[k].has_href}

DomainInHref(u, a) == Contains(a.href, FirstDomain(u))

\* how many href-bearing anchors up to k are on the same side of the partition as k
SideRank(u, body, k) ==
    Cardinality({j \in HrefAnchors(body) :
                    j <= k /\ (DomainInHref(u, body[j]) <=> DomainInHref(u, body[k]))})

(***************************************************************************)
(* C6: in every successful analysis record each anchor that carries an     *)
(* href is in exactly one of internal_links and external_links, in         *)
(* document order within each list, so that the two counts add up to the   *)
(* number of such anchors; an anchor is internal iff the domain extracted  *)
(* from the analyzed url is a substring of its href.                       *)
(***************************************************************************)
LinksPartitioned ==
    Analyzed =>
        LET body == response.body
            K == HrefAnchors(body)
            ints == analysis.internal_links
            exts == analysis.external_links
        IN  /\ Len(ints) = Cardinality({k \in K : DomainInHref(url, body[k])})
            /\ Len(exts) = Cardinality({k \in K : ~DomainInHref(url, body[k])})
            /\ \A k \in K :
                  LET side == IF DomainInHref(url, body[k]) THEN ints ELSE exts
                      r == SideRank(url, body, k)
                  IN  /\ r <= Len(side)
                      /\ side[r].href = body[k].href
                      /\ side[r].text = strip(body[k].text)
            /\ analysis.metrics.num_internal_links = Len(ints)
            /\ analysis.metrics.num_external_links = Len(exts)
            /\ analysis.metrics.num_internal_links + analysis.metrics.num_external_links
                  = Cardinality(K)

\* a page with an anchor without href, analyzed into internal and external links
LinksPartitionedWitness ==
    /\ Analyzed
    /\ Len(analysis.internal_links) >= 1
    /\ Len(analysis.external_links) >= 1
    /\ \E k \in 1..Len(response.body) :
          response.body[k].tag = "a" /\ ~response.body[k].has_href

\* the keywords of a token list, and how often one occurs in it
KeywordsOf(tokens) ==
    {lower(tokens[i]) : i \in {j \in 1..Len(tokens) : KeepToken(tokens[j])}}

Occurrences(tokens, w) ==
    Cardinality({i \in 1..Len(tokens) : KeepToken(tokens[i]) /\ lower(tokens[i]) = w})

(***************************************************************************)
(* C8: in every successful analysis record top_keywords has at most 10     *)
(* entries, every count is >= 1, the counts do not increase along the      *)
(* list, and no keyword left out has a greater count than one included.    *)
(***************************************************************************)
TopKeywordsRanked ==
    Analyzed =>
        LET top == analysis.top_keywords
            tokens == nlp(paragraph_text(response.body))
            count == [w \in KeywordsOf(tokens) |-> Occurrences(tokens, w)]
            included == {top[i][1] : i \in 1..Len(top)}
        IN  /\ Len(top) <= TopN
            /\ included \subseteq DOMAIN count
            /\ \A i \in 1..Len(top) : top[i][2] >= 1 /\ top[i][2] = count[top[i][1]]
            /\ \A i, j \in 1..Len(top) : i < j => top[i][2] >= top[j][2] /\ top[i][1] # top[j][1]
            /\ \A w \in (DOMAIN count) \ included :
                  \A i \in 1..Len(top) : count[w] <= top[i][2]

\* more keywords than fit, with different counts among those kept
TopKeywordsRankedWitness ==
    /\ Analyzed
    /\ Cardinality(KeywordsOf(nlp(paragraph_text(response.body)))) > TopN
    /\ Len(analysis.top_keywords) = TopN
    /\ analysis.top_keywords[1][2] > analysis.top_keywords[TopN][2]

HeadingElems(body) == {k \in 1..Len(body) : body[k].tag \in Range(HeadingTags)}

Level(e) == CHOOSE i \in DOMAIN HeadingTags : HeadingTags[i] = e.tag

\* the place of heading element k in a list grouped by level
GroupedPlace(body, k) ==
    Cardinality({j \in HeadingElems(body) :
                    \/ Level(body[j]) < Level(body[k])
                    \/ Level(body[j]) = Level(body[k]) /\ j <= k})

\* t is s without its leading and trailing whitespace
IsTrimOf(t, s) ==
    /\ \E a \in 0..Len(s) : \E b \in a..Len(s) :
          /\ SubSeq(s, a + 1, b) = t
          /\ \A i \in 1..a : IsSpace(s[i])
          /\ \A i \in (b + 1)..Len(s) : IsSpace(s[i])
    /\ t # <<>> => ~IsSpace(t[1]) /\ ~IsSpace(t[Len(t)])

(***************************************************************************)
(* C9: headings is grouped by level, H1 first and H6 last, each level in   *)
(* document order and whitespace-trimmed; every heading element of the     *)
(* page appears exactly once and num_headings is the length of the list.   *)
(***************************************************************************)
HeadingsGroupedByLevel ==
    Analyzed =>
        LET body == response.body
            H == HeadingElems(body)
        IN  /\ Len(analysis.headings) = Cardinality(H)
            /\ analysis.metrics.num_headings = Len(analysis.headings)
            /\ \A k \in H : IsTrimOf(analysis.headings[GroupedPlace(body, k)], body[k].text)

\* a page whose first heading in document order is not of the first level present,
\* with a heading that has whitespace around its text
HeadingsGroupedByLevelWitness ==
    /\ Analyzed
    /\ \E j, k \in HeadingElems(response.body) :
          /\ j < k
          /\ Level(response.body[j]) > Level(response.body[k])
          /\ strip(response.body[j].text) # response.body[j].text
    /\ Len(analysis.headings) >= 2

NoParagraphs == response.ok /\ find_all(response.body, "p") = <<>>

ZeroMetrics(a) ==
    /\ a.metrics.word_count = 0
    /\ NumIsZero(a.metrics.avg_sentence_length)
    /\ a.top_keywords = <<>>

(***************************************************************************)
(* C10: for every successfully fetched page with zero paragraph elements   *)
(* analyze_article returns a record, not an error, with word_count 0,      *)
(* avg_sentence_length 0 and no top keyword; avg_sentence_length is 0      *)
(* whenever there are zero sentences.                                      *)
(***************************************************************************)
EmptyPageYieldsZeroMetrics ==
    /\ (pc = "done" /\ NoParagraphs) => (raised = "" /\ IsRecord(analysis) /\ ZeroMetrics(analysis))
    /\ (Analyzed /\ sent_tokenize(paragraph_text(response.body)) = <<>>)
          => NumIsZero(analysis.metrics.avg_sentence_length)

\* the part of C10 that the code keeps: when line 46 finds a domain in the url,
\* a fetched page without paragraphs yields a record with zero metrics
EmptyPageYieldsZeroMetricsGivenDomain ==
    (pc = "done" /\ NoParagraphs /\ ~NoDomain(url)) =>
        (raised = "" /\ IsRecord(analysis) /\ ZeroMetrics(analysis))

(***************************************************************************)
(* SpecSuggest: one call of suggest_improvements on any metric set         *)
(***************************************************************************)
WcSpread == 1
MaxDen == 2
MaxCount == 2

WordCounts == {0, 250} \cup ((MinWords - WcSpread)..(MinWords + WcSpread))

AvgValues ==
    {IntZero, TrueDiv(0, 1), TrueDiv(15, 1)}
    \cup {TrueDiv(n, d) : n \in (MaxAvgSentence * MaxDen - MaxDen)..(MaxAvgSentence * MaxDen + MaxDen),
                          d \in {MaxDen}}

MetricSets ==
    [word_count : WordCounts, avg_sentence_length : AvgValues, num_headings : 0..MaxCount,
     num_internal_links : 0..MaxCount, num_external_links : 0..MaxCount]

InitSuggest ==
    /\ pc = "ready"
    /\ url = <<>>
    /\ response = FetchError(<<>>)
    /\ analysis \in [metrics : MetricSets]
    /\ raised = ""
    /\ suggestions = <<>>
    /\ clock = 0
    /\ files = <<>>
    /\ saves = <<>>
    /\ UiAtRest

SuggestCall ==
    /\ pc = "ready"
    /\ suggestions' = suggest_improvements(analysis)
    /\ pc' = "done"
    /\ UNCHANGED <<url, response, analysis, raised, clock, files, saves>>
    /\ UNCHANGED uiVars

NextSuggest == SuggestCall

SpecSuggest == InitSuggest /\ [][NextSuggest]_vars

RuleTable ==
    << [category |-> "Content Length", priority |-> "High"],
       [category |-> "Readability", priority |-> "Medium"],
       [category |-> "Structure", priority |-> "High"],
       [category |-> "Internal Linking", priority |-> "Medium"],
       [category |-> "External Linking", priority |-> "Low"] >>

RuleHolds(m) ==
    << m.word_count < 300,
       m.avg_sentence_length.den > 0
           /\ m.avg_sentence_length.num > 20 * m.avg_sentence_length.den,
       m.num_headings = 0,
       m.num_internal_links < 2,
       m.num_external_links = 0 >>

(***************************************************************************)
(* C1: suggest_improvements returns exactly the suggestions whose rule     *)
(* holds, in the order of the rules: Content Length (High) iff             *)
(* word_count < 300, Readability (Medium) iff avg_sentence_length > 20,    *)
(* Structure (High) iff num_headings = 0, Internal Linking (Medium) iff    *)
(* num_internal_links < 2, External Linking (Low) iff                      *)
(* num_external_links = 0, each rule independently of the others.          *)
(***************************************************************************)
SuggestionsMatchRules ==
    pc = "done" =>
        LET holds == RuleHolds(analysis.metrics)
            firing == {r \in DOMAIN RuleTable : holds[r]}
        IN  /\ Len(suggestions) = Cardinality(firing)
            /\ \A r \in firing :
                  LET place == Cardinality({q \in firing : q <= r})
                  IN  /\ suggestions[place].category = RuleTable[r].category
                      /\ suggestions[place].priority = RuleTable[r].priority

\* Scenario 3 of the specification
SuggestionsMatchRulesWitness ==
    /\ pc = "done"
    /\ analysis.metrics = [word_count |-> 250, avg_sentence_length |-> TrueDiv(15, 1),
                           num_headings |-> 1, num_internal_links |-> 0,
                           num_external_links |-> 0]
    /\ Len(suggestions) = 3
    /\ suggestions[2].category = "Internal Linking"
    /\ suggestions[3].category = "External Linking"

RecordKeys ==
    {"url", "analyzed_at", "metrics", "headings", "internal_links", "external_links",
     "top_keywords"}

MaxClock == 3
MaxSaves == 2

SaveUrls == {UrlPlain, UrlQuery}

SavePages == { <<>>, << Elem("p", <<"p","i","g">>, FALSE, <<>>) >> }

InitSave ==
    /\ pc = "done"
    /\ url \in SaveUrls
    /\ response \in {FetchOk(pg) : pg \in SavePages}
    /\ analysis = analyze_article(url, response, 0).value
    /\ raised = ""
    /\ suggestions = <<>>
    /\ clock = 0
    /\ files = <<>>
    /\ saves = <<>>
    /\ UiAtRest

\* time passes
Tick ==
    /\ clock < MaxClock
    /\ clock' = clock + 1
    /\ UNCHANGED <<pc, url, response, analysis, raised, suggestions, files, saves>>
    /\ UNCHANGED uiVars

\* analysis = auditor.analyze_article(url)
AnalyzeAgain ==
    /\ pc = "done"
    /\ \E u \in SaveUrls : \E resp \in Responses(u, SavePages) :
          LET r == analyze_article(u, resp, clock)
          IN  /\ url' = u
              /\ response' = resp
              /\ raised' = (IF r.raised THEN r.type ELSE "")
              /\ analysis' = (IF r.raised THEN analysis ELSE r.value)
    /\ UNCHANGED <<pc, suggestions, clock, files, saves>>
    /\ UNCHANGED uiVars

\* auditor.save_analysis(analysis, approved) on a record
SaveAgain ==
    /\ pc = "done"
    /\ IsRecord(analysis)
    /\ Len(saves) < MaxSaves
    /\ \E approved \in BOOLEAN : DoSave(approved)
    /\ UNCHANGED <<pc, url, response, analysis, raised, suggestions, clock>>
    /\ UNCHANGED uiVars

NextSave == Tick \/ AnalyzeAgain \/ SaveAgain

SpecSave == InitSave /\ [][NextSave]_vars

(***************************************************************************)
(* C2: every call of save_analysis creates a new file and never overwrites *)
(* a file written by an earlier save, for any sequence of saves.           *)
(***************************************************************************)
EverySaveCreatesNewFile ==
    /\ \A i \in 1..Len(saves) : ~saves[i].overwrote
    /\ Cardinality(DOMAIN files) = Len(saves)

(***************************************************************************)
(* Spec: the Streamlit script, main (lines 144-182) and display_analysis   *)
(* (lines 184-238).  Streamlit runs the script from the top on every       *)
(* interaction; st.button(label) draws the button and returns True only in *)
(* the run that a click on that very button started; two buttons with the  *)
(* same label and no key in one run raise DuplicateWidgetID; the state of  *)
(* a widget that a run does not draw is dropped.                           *)
(***************************************************************************)
Methods == {"Single URL", "Bulk URLs", "Local Files"}

UiUrls == {UrlPlain, UrlUpper, UrlBare}

Newline == <<"\n">>

\* what the operator may paste into the text area
BulkTexts ==
    { UrlPlain \o Newline \o <<" ">> \o Newline \o UrlWww \o <<" ">> \o Newline \o UrlBare,
      UrlBare \o Newline \o UrlPlain \o Newline }

UiPages == { <<>>, << Elem("h1", <<"A">>, FALSE, <<>>), Elem("a", <<"i","n">>, TRUE, <<"/","y">>) >> }

Event(op, line) == [op |-> op, line |-> line]

\* st.button(label): True iff this run was started by a click on it
st_button(label) == trigger.label = label

\* the script starts over
StartRun(t) ==
    /\ trigger' = t
    /\ pc' = "main"
    /\ widgets' = {}
    /\ screen' = <<>>
    /\ queue' = <<>>
    /\ idx' = 0
    /\ log' = <<>>
    /\ raised' = ""
    /\ UNCHANGED <<url, response, analysis, suggestions, clock, files, saves>>

\* the operator picks another input method
SelectMethod ==
    /\ pc = "idle"
    /\ \E m \in Methods \ {session.input_method} :
          session' = [input_method |-> m, url |-> <<>>, urls |-> <<>>]
    /\ StartRun(NoTrigger)

\* the operator types into the text input
EnterUrl ==
    /\ pc = "idle"
    /\ session.input_method = "Single URL"
    /\ \E u \in (UiUrls \cup {<<>>}) \ {session.url} : session' = [session EXCEPT !.url = u]
    /\ StartRun(NoTrigger)

\* the operator types into the text area
EnterUrls ==
    /\ pc = "idle"
    /\ session.input_method = "Bulk URLs"
    /\ \E t \in (BulkTexts \cup {<<>>}) \ {session.urls} : session' = [session EXCEPT !.urls = t]
    /\ StartRun(NoTrigger)

\* the operator clicks a button that is on screen
Click ==
    /\ pc = "idle"
    /\ \E i \in 1..Len(screen) : StartRun(screen[i])
    /\ UNCHANGED session

\* main up to the analysis (lines 144-170 and 181-182)
RunMain ==
    /\ pc = "main"
    /\ LET m == session.input_method
           text == IF m = "Single URL" THEN session.url
                   ELSE IF m = "Bulk URLs" THEN session.urls ELSE <<>>
           label == IF m = "Single URL" THEN "Analyze" ELSE "Analyze All"
       IN  IF text = <<>>
           THEN /\ pc' = "idle"
                /\ UNCHANGED <<widgets, screen, queue, idx>>
           ELSE /\ widgets' = widgets \cup {label}
                /\ screen' = Append(screen, Button(label, [error |-> ""]))
                /\ IF st_button(label)
                   THEN /\ queue' = (IF m = "Single URL" THEN <<text>> ELSE split_lines(text))
                        /\ idx' = 1
                        /\ pc' = "loop"
                   ELSE /\ pc' = "idle"
                        /\ UNCHANGED <<queue, idx>>
    /\ UNCHANGED <<url, response, analysis, raised, suggestions, clock, files, saves,
                   session, trigger, log>>

\* the loop is over, or nothing was to loop over
EndLoop ==
    /\ pc = "loop"
    /\ idx > Len(queue)
    /\ pc' = "idle"
    /\ UNCHANGED <<url, response, analysis, raised, suggestions, clock, files, saves,
                   session, trigger, widgets, queue, idx, log, screen>>

\* if url.strip(): is false (line 172)
SkipBlank ==
    /\ pc = "loop"
    /\ idx <= Len(queue)
    /\ session.input_method = "Bulk URLs"
    /\ strip(queue[idx]) = <<>>
    /\ idx' = idx + 1
    /\ UNCHANGED <<pc, url, response, analysis, raised, suggestions, clock, files, saves,
                   session, trigger, widgets, queue, log, screen>>

\* analysis = auditor.analyze_article(url) (line 161), (url.strip()) (line 174)
Analyze ==
    /\ pc = "loop"
    /\ idx <= Len(queue)
    /\ session.input_method = "Bulk URLs" => strip(queue[idx]) # <<>>
    /\ LET u == IF session.input_method = "Bulk URLs" THEN strip(queue[idx]) ELSE queue[idx]
       IN  \E resp \in Responses(u, UiPages) :
              LET r == analyze_article(u, resp, clock)
              IN  /\ url' = u
                  /\ response' = resp
                  /\ raised' = (IF r.raised THEN r.type ELSE "")
                  /\ analysis' = (IF r.raised THEN analysis ELSE r.value)
                  /\ pc' = (IF r.raised THEN "idle" ELSE "dispatch")
                  /\ log' = Append(log, Event(IF r.raised THEN "crash" ELSE "analyze", idx))
    /\ UNCHANGED <<suggestions, clock, files, saves, session, trigger, widgets, queue, idx,
                   screen>>

\* st.error(...) (lines 163 and 176)
ShowError ==
    /\ pc = "dispatch"
    /\ ~IsRecord(analysis)
    /\ log' = Append(log, Event("error", idx))
    /\ idx' = idx + 1
    /\ pc' = "loop"
    /\ UNCHANGED <<url, response, analysis, raised, suggestions, clock, files, saves,
                   session, trigger, widgets, queue, screen>>

\* display_analysis(analysis, auditor) when its buttons are the first of the run
Display ==
    /\ pc = "dispatch"
    /\ IsRecord(analysis)
    /\ "Save Analysis" \notin widgets
    /\ suggestions' = suggest_improvements(analysis)
    /\ widgets' = widgets \cup {"Save Analysis", "Approve and Save"}
    /\ screen' = screen \o << Button("Save Analysis", analysis),
                              Button("Approve and Save", analysis) >>
    /\ IF st_button("Save Analysis") THEN DoSave(FALSE)
       ELSE IF st_button("Approve and Save") THEN DoSave(TRUE)
       ELSE UNCHANGED <<files, saves>>
    /\ log' = Append(log, Event("display", idx))
    /\ idx' = idx + 1
    /\ pc' = "loop"
    /\ UNCHANGED <<url, response, analysis, raised, clock, session, trigger, queue>>

\* display_analysis(analysis, auditor) after an earlier one in the same run:
\* st.button("Save Analysis") (line 232) raises DuplicateWidgetID, the run ends
DisplayAgain ==
    /\ pc = "dispatch"
    /\ IsRecord(analysis)
    /\ "Save Analysis" \in widgets
    /\ suggestions' = suggest_improvements(analysis)
    /\ raised' = "DuplicateWidgetID"
    /\ log' = Append(log, Event("crash", idx))
    /\ pc' = "idle"
    /\ UNCHANGED <<url, response, analysis, clock, files, saves, session, trigger, widgets,
                   queue, idx, screen>>

Init ==
    /\ pc = "main"
    /\ url = <<>>
    /\ response = FetchError(<<>>)
    /\ analysis = [error |-> ""]
    /\ raised = ""
    /\ suggestions = <<>>
    /\ clock = 0
    /\ files = <<>>
    /\ saves = <<>>
    /\ UiAtRest

Next ==
    \/ SelectMethod
    \/ EnterUrl
    \/ EnterUrls
    \/ Click
    \/ RunMain
    \/ EndLoop
    \/ SkipBlank
    \/ Analyze
    \/ ShowError
    \/ Display
    \/ DisplayAgain

Spec == Init /\ [][Next]_vars

SaveLabels == {"Save Analysis", "Approve and Save"}

\* the analysis of the current url cannot succeed
AnalysisFails == ~response.ok \/ NoDomain(url)

(***************************************************************************)
(* C3: analyze_article never lets an exception escape: a failure of the    *)
(* fetch or of the computation yields exactly {error: message}, a          *)
(* successful result has no 'error' key, and save_analysis is never called *)
(* for a url whose analysis failed, so no file is written for it.          *)
(***************************************************************************)
FailureBecomesErrorResult ==
    /\ \A i \in 1..Len(log) : log[i].op = "crash" => raised = "DuplicateWidgetID"
    /\ pc = "dispatch" =>
          /\ raised = ""
          /\ IF AnalysisFails
             THEN DOMAIN analysis = {"error"}
             ELSE DOMAIN analysis = RecordKeys /\ analysis.url = url
    /\ \A i \in 1..Len(screen) :
          screen[i].label \in SaveLabels =>
              IsRecord(screen[i].target) /\ screen[i].target.url \in {strip(u) : u \in Range(queue)}
    /\ \A i \in 1..Len(log) :
          log[i].op = "display" => \A j \in 1..Len(log) : log[j].line = log[i].line => log[j].op # "error"
    /\ \A i \in 1..Len(saves) : IsRecord(saves[i].analysis)
    /\ \A n \in DOMAIN files : DOMAIN json_load(files[n]) = RecordKeys

\* a bulk run that is over, in which the analysis of one url failed and a later
\* url was analyzed and displayed
FailureBecomesErrorResultWitness ==
    /\ pc = "idle"
    /\ \E i \in 1..Len(log) : log[i].op = "error" /\ \E j \in (i + 1)..Len(log) : log[j].op = "display"
    /\ \E i \in 1..Len(screen) : screen[i].label \in SaveLabels
    /\ files = <<>>

(***************************************************************************)
(* C4: a click on "Save Analysis" of a displayed result leads to           *)
(* save_analysis on that record with approved = false, a click on          *)
(* "Approve and Save" to one with approved = true, across the script run   *)
(* that the click starts.  The click can only be served by the run it      *)
(* starts, so the call has been made when that run is over.                *)
(***************************************************************************)
ClickOnSaveSaves ==
    (pc = "idle" /\ trigger.label \in SaveLabels) =>
        \E i \in 1..Len(saves) :
            /\ saves[i].analysis = trigger.target
            /\ saves[i].approved = (trigger.label = "Approve and Save")

NonBlankLines(lines) == {i \in 1..Len(lines) : strip(lines[i]) # <<>>}

(***************************************************************************)
(* C5: a bulk run analyzes every non-blank line exactly once, in input     *)
(* order, each one displayed or reported as an error before the next is    *)
(* analyzed, whatever the outcome of the lines before it.                  *)
(***************************************************************************)
BulkRunCoversEveryLine ==
    (pc = "idle" /\ session.input_method = "Bulk URLs" /\ trigger.label = "Analyze All") =>
        LET lines == split_lines(session.urls)
            todo == NonBlankLines(lines)
        IN  /\ Len(log) = 2 * Cardinality(todo)
            /\ \A i \in todo :
                  LET place == Cardinality({j \in todo : j <= i})
                  IN  /\ log[2 * place - 1] = Event("analyze", i)
                      /\ log[2 * place] \in {Event("display", i), Event("error", i)}

====
